---- MODULE Spec2Model ----
(***************************************************************************)
(* Paged slicing and selection over a time-series backing array:           *)
(* tvb/datatypes/time_series_framework.py (TimeSeriesFramework and         *)
(* TimeSeriesVolumeFramework).                                             *)
(*                                                                         *)
(* An n-dimensional array is a record [shape, flat]: its shape (one extent *)
(* per axis) and its elements in row-major order, as numpy stores them.    *)
(* Axes are numbered from 0 as in the source; TLA+ sequences start at 1,   *)
(* so axis i of a shape s is s[i + 1].  Arrays of the program have at most *)
(* four axes.                                                              *)
(***************************************************************************)
EXTENDS Integers, Sequences, FiniteSets, TLC

VARIABLES data, time, sample_period, start_time, sample_rate,
          nr_dimensions, length_kd, op, outcome, ret, store_calls

vars == <<data, time, sample_period, start_time, sample_rate,
          nr_dimensions, length_kd, op, outcome, ret, store_calls>>

\* ---------------------------------------------------------------- bounds

\* Largest time extent (axis 0) the backing array grows to.
MaxT == 2
\* Largest extent of a non-time axis.
MaxExt == 2
\* Largest page index and page size of a time-page request.
MaxPage == 3
\* Largest sample period and start time, in ticks.
MaxTick == 3

\* ------------------------------------------------------------ arithmetic

Min(a, b) == IF a < b THEN a ELSE b

Max(a, b) == IF a > b THEN a ELSE b

\* Python's a // b and the ceiling of a / b, for b > 0.
CeilDiv(a, b) == -((-a) \div b)

\* The sequence f, a function on 1..n, with its elements evaluated once.
AsSeq(f) == f \o <<>>

\* ---------------------------------------------------------------- arrays

\* Extent of axis i (0-based); an axis the shape does not have counts 1.
Axis(shape, i) == IF i + 1 <= Len(shape) THEN shape[i + 1] ELSE 1

Size(shape) == Axis(shape, 0) * Axis(shape, 1) * Axis(shape, 2) * Axis(shape, 3)

Rank(a) == Len(a.shape)

\* Row-major offset of the element at (i0, i1, i2, i3).
Offset(shape, i0, i1, i2, i3) ==
    ((i0 * Axis(shape, 1) + i1) * Axis(shape, 2) + i2) * Axis(shape, 3) + i3

At(a, i0, i1, i2, i3) == a.flat[1 + Offset(a.shape, i0, i1, i2, i3)]

\* The array of the given shape whose element at (i0, i1, i2, i3) is
\* F(i0, i1, i2, i3).
MkArr(shape, F(_, _, _, _)) ==
    [shape |-> shape,
     flat  |-> AsSeq([n \in 1..Size(shape) |->
                  LET m  == n - 1
                      d1 == Axis(shape, 1)
                      d2 == Axis(shape, 2)
                      d3 == Axis(shape, 3)
                  IN  F(m \div (d1 * d2 * d3), (m \div (d2 * d3)) % d1,
                        (m \div d3) % d2, m % d3)])]

\* numpy.ndarray.squeeze(): every axis of extent 1 is dropped.
RECURSIVE DropOnes(_)
DropOnes(shape) ==
    IF shape = <<>> THEN <<>>
    ELSE IF Head(shape) = 1 THEN DropOnes(Tail(shape))
         ELSE <<Head(shape)>> \o DropOnes(Tail(shape))

squeeze(a) == [shape |-> DropOnes(a.shape), flat |-> a.flat]

\* numpy.ndarray.reshape(): same elements in the same order, new shape.
reshape(a, shape) == [shape |-> shape, flat |-> a.flat]

\* a[..., ::-1]: the last axis reversed.  The last axis of a rank-r array
\* is axis r - 1; arrays that reach this operator have rank 4.
ReverseLast(a) ==
    MkArr(a.shape, LAMBDA i0, i1, i2, i3 :
                     At(a, i0, i1, i2, Axis(a.shape, 3) - 1 - i3))

\* Python's slice(start, stop, step).indices(n) for step >= 1, as the
\* sequence of selected indices: negative bounds count from the end, and
\* both bounds are clipped into 0..n.
SliceBound(b, n) == IF b < 0 THEN Max(b + n, 0) ELSE Min(b, n)

slice(start, stop, step) == [start |-> start, stop |-> stop, step |-> step]

SliceIndices(s, n) ==
    LET lo    == SliceBound(s.start, n)
        hi    == SliceBound(s.stop, n)
        count == IF hi > lo THEN CeilDiv(hi - lo, s.step) ELSE 0
    IN  AsSeq([k \in 1..count |-> lo + (k - 1) * s.step])

\* An integer index on an axis of extent n: negative indices wrap once,
\* anything outside -n..n-1 is an IndexError.
IndexOk(i, n) == -n <= i /\ i < n

WrapIndex(i, n) == IF i < 0 THEN i + n ELSE i

\* ------------------------------------------------------- textual inputs

\* A text is a sequence of one-character strings.  json.dumps writes a
\* list of integers as "[a, b, c]"; json.loads reads it back, skipping
\* blanks.
Digits == <<"0", "1", "2", "3", "4", "5", "6", "7", "8", "9">>

DigitValue(c) == CHOOSE d \in 0..9 : Digits[d + 1] = c

RECURSIVE FormatNat(_)
FormatNat(n) ==
    IF n < 10 THEN <<Digits[n + 1]>>
    ELSE FormatNat(n \div 10) \o <<Digits[(n % 10) + 1]>>

FormatInt(n) == IF n < 0 THEN <<"-">> \o FormatNat(-n) ELSE FormatNat(n)

RECURSIVE JoinItems(_)
JoinItems(list) ==
    IF list = <<>> THEN <<>>
    ELSE IF Len(list) = 1 THEN FormatInt(list[1])
         ELSE FormatInt(list[1]) \o <<",", " ">> \o JoinItems(Tail(list))

dumps(list) == <<"[">> \o JoinItems(list) \o <<"]">>

RECURSIVE ParseNat(_, _)
ParseNat(chars, acc) ==
    IF chars = <<>> THEN acc
    ELSE ParseNat(Tail(chars), 10 * acc + DigitValue(Head(chars)))

ParseInt(chars) ==
    IF Head(chars) = "-" THEN -ParseNat(Tail(chars), 0) ELSE ParseNat(chars, 0)

\* The items between the brackets: cur collects the characters of the item
\* being read, acc the items read so far.
RECURSIVE ParseItems(_, _, _)
ParseItems(chars, cur, acc) ==
    IF chars = <<>> THEN (IF cur = <<>> THEN acc ELSE Append(acc, ParseInt(cur)))
    ELSE IF Head(chars) = "," THEN ParseItems(Tail(chars), <<>>, Append(acc, ParseInt(cur)))
    ELSE IF Head(chars) = " " THEN ParseItems(Tail(chars), cur, acc)
    ELSE ParseItems(Tail(chars), Append(cur, Head(chars)), acc)

\* json.loads of the text of a list of integers.
loads(text) == ParseItems(SubSeq(text, 2, Len(text) - 1), <<>>, <<>>)

\* An optional argument: None, a list (a sequence of integers), or a text.
None == [kind |-> "none"]

ListArg(l) == [kind |-> "list", list |-> l]

TextArg(t) == [kind |-> "text", text |-> t]

\* ---------------------------------------------------------- backing store

\* No 'data' array has been written yet.
NoData == [shape |-> <<>>, flat |-> <<>>]

\* The value the producing process writes at position (i0, i1, i2, i3) of
\* 'data': distinct positions hold distinct values, so that a read of the
\* wrong position shows.
SampleBase == MaxT + MaxExt + 2

Sample(i0, i1, i2, i3) == ((i0 * SampleBase + i1) * SampleBase + i2) * SampleBase + i3

Samples(shape) == MkArr(shape, Sample)

\* get_data_shape(name): the shape of the stored array; fails when there is
\* none.
get_data_shape_fails(d) == d.shape = <<>>

get_data_shape(d) == d.shape

\* get_data(name, data_slice): one slice per axis, numpy basic slicing.
get_data(d, slices) ==
    LET I == AsSeq([k \in 1..4 |-> IF k <= Len(slices)
                                   THEN SliceIndices(slices[k], Axis(d.shape, k - 1))
                                   ELSE <<0>>])
    IN  MkArr(AsSeq([k \in 1..Len(slices) |-> Len(I[k])]),
              LAMBDA i0, i1, i2, i3 :
                At(d, I[1][i0 + 1], I[2][i1 + 1], I[3][i2 + 1], I[4][i3 + 1]))

\* store_data_chunk(name, chunk, grow_dimension, close_file): the chunk is
\* appended after the stored elements along grow_dimension; the first chunk
\* creates the array.
store_data_chunk(d, chunk, grow_dimension) ==
    IF d.shape = <<>> THEN chunk
    ELSE LET g  == grow_dimension
             n  == Axis(d.shape, g)
             sh == AsSeq([k \in 1..Len(d.shape) |->
                      IF k = g + 1 THEN d.shape[k] + chunk.shape[k] ELSE d.shape[k]])
         IN  MkArr(sh, LAMBDA i0, i1, i2, i3 :
                   LET i == <<i0, i1, i2, i3>>
                   IN  IF i[g + 1] < n THEN At(d, i0, i1, i2, i3)
                       ELSE At(chunk, IF g = 0 THEN i0 - n ELSE i0,
                                      IF g = 1 THEN i1 - n ELSE i1,
                                      IF g = 2 THEN i2 - n ELSE i2,
                                      IF g = 3 THEN i3 - n ELSE i3))

\* The chunks the store accepts for 'data': the stored shape with extent 1
\* along grow_dimension.
ChunkFits(d, chunk, grow_dimension) ==
    \/ d.shape = <<>>
    \/ /\ grow_dimension + 1 <= Len(d.shape)
       /\ Len(chunk.shape) = Len(d.shape)
       /\ \A k \in 1..Len(d.shape) :
             k # grow_dimension + 1 => chunk.shape[k] = d.shape[k]

\* ------------------------------------------------------------------ state

\* data           the backing 'data' array (NoData before the first write)
\* time           the backing 'time' array, one value per written step
\* sample_period, start_time   in ticks; sample_rate as <<numerator, denominator>>
\* nr_dimensions, length_kd    the derived fields length_1d .. length_4d
\* op, outcome, ret   the last call, how it ended ("ok" or the exception
\*                    raised) and what it returned
\* store_calls    the store methods the last call invoked, in order, each
\*                with the slices it was given

NoValue == <<>>

StoreCall(method, slices) == [method |-> method, slices |-> slices]

ShapeCall == StoreCall("get_data_shape", <<>>)

ChunkCall == StoreCall("store_data_chunk", <<>>)

\* No call is in progress: the caller has taken the last result.
Idle == [name |-> "idle"]

NotSet == <<>>

\* Shapes of a backing array: 1 to 4 axes, axis 0 is time (0..MaxT steps),
\* every other axis has 1..MaxExt elements.
DataShapes ==
    {s \in UNION {[1..r -> 0..Max(MaxT, MaxExt)] : r \in 1..4} :
        /\ s[1] <= MaxT
        /\ \A k \in 2..Len(s) : 1 <= s[k] /\ s[k] <= MaxExt}

\* The arrays a time series is constructed over: the last step is yet to
\* be written.
InitShapes == {s \in DataShapes : s[1] < MaxT}

InitFields ==
    /\ time = <<>>
    /\ sample_rate = NotSet
    /\ nr_dimensions = 0
    /\ length_kd = [k \in 1..4 |-> 0]
    /\ op = Idle
    /\ outcome = "ok"
    /\ ret = NoValue
    /\ store_calls = <<>>

Init ==
    /\ data \in {NoData} \cup {Samples(s) : s \in InitShapes}
    /\ sample_period = 1
    /\ start_time = 0
    /\ InitFields

\* How a call ends: "ok" with the value returned, or the exception raised.
Result(how, value) == [outcome |-> how, value |-> value]

Raised(exception) == [outcome |-> exception, value |-> NoValue]

Called(r, calls) == [outcome |-> r.outcome, value |-> r.value, calls |-> calls]

\* -------------------------------------------------------- shape resolver

\* read_data_shape(): the store's shape, or TVBException when the store
\* cannot give one.
read_data_shape_fails(d) == get_data_shape_fails(d)

read_data_shape(d) == get_data_shape(d)

\* read_data_slice(data_slice)
read_data_slice(d, data_slice) == get_data(d, data_slice)

\* (variant: the loop stops one axis early)
configured_lengths_short(data_shape, old) ==
    AsSeq([k \in 1..4 |-> IF k <= Min(Len(data_shape), 4) - 1 THEN data_shape[k] ELSE old[k]])

\* The length_kd fields configure() assigns: one per axis, at most four.
configured_lengths(data_shape, old) ==
    AsSeq([k \in 1..4 |-> IF k <= Min(Len(data_shape), 4) THEN data_shape[k] ELSE old[k]])

configure ==
    /\ op = Idle
    /\ op' = [name |-> "configure"]
    /\ store_calls' = <<ShapeCall>>
    /\ ret' = NoValue
    /\ IF read_data_shape_fails(data)
       THEN /\ outcome' = "TVBException"
            /\ UNCHANGED <<nr_dimensions, sample_rate, length_kd>>
       ELSE LET data_shape == read_data_shape(data)
            IN  /\ outcome' = "ok"
                /\ nr_dimensions' = Len(data_shape)
                /\ sample_rate' = <<1, sample_period>>
                /\ length_kd' = configured_lengths(data_shape, length_kd)
    /\ UNCHANGED <<data, time, sample_period, start_time>>

\* ----------------------------------------------------------------- writes

\* write_time_slice(partial_result): the producing process appends the time
\* of the next step.
write_time_slice ==
    /\ op = Idle
    /\ Len(time) < MaxT
    /\ LET partial_result == <<start_time + Len(time) * sample_period>>
       IN  /\ time' = time \o partial_result
           /\ op' = [name |-> "write_time_slice", partial_result |-> partial_result]
    /\ store_calls' = <<ChunkCall>>
    /\ outcome' = "ok"
    /\ ret' = NoValue
    /\ UNCHANGED <<data, sample_period, start_time, sample_rate, nr_dimensions, length_kd>>

\* The chunk the producing process writes next along grow_dimension: one
\* more index of that axis, holding the samples of its positions.
NextChunk(d, grow_dimension) ==
    LET g == grow_dimension
        n == Axis(d.shape, g)
    IN  MkArr(AsSeq([k \in 1..Len(d.shape) |-> IF k = g + 1 THEN 1 ELSE d.shape[k]]),
              LAMBDA i0, i1, i2, i3 :
                Sample(IF g = 0 THEN i0 + n ELSE i0, IF g = 1 THEN i1 + n ELSE i1,
                       IF g = 2 THEN i2 + n ELSE i2, IF g = 3 THEN i3 + n ELSE i3))

\* (variant: the chunk replaces the stored array)
data_after_replace(d, partial_result, grow_dimension) == partial_result

\* The 'data' array after write_data_slice: store_data_chunk is called with
\* the chunk and the caller's grow_dimension, as given.
data_after_write(d, partial_result, grow_dimension) ==
    store_data_chunk(d, partial_result, grow_dimension)

\* write_data_slice(partial_result, grow_dimension=0)
write_data_slice ==
    /\ op = Idle
    /\ \E grow_dimension \in 0..3 :
         \E partial_result \in
              IF data = NoData
              THEN {Samples(s) : s \in {t \in DataShapes : t[1] = 1}}
              ELSE IF grow_dimension + 1 <= Len(data.shape)
                   THEN {NextChunk(data, grow_dimension)}
                   ELSE {} :
            /\ ChunkFits(data, partial_result, grow_dimension)
            /\ data = NoData => grow_dimension = 0
            /\ data # NoData =>
                 Axis(data.shape, grow_dimension) <
                   (IF grow_dimension = 0 THEN MaxT ELSE MaxExt)
            /\ data' = data_after_write(data, partial_result, grow_dimension)
            /\ op' = [name |-> "write_data_slice", partial_result |-> partial_result,
                      grow_dimension |-> grow_dimension]
    /\ store_calls' = <<ChunkCall>>
    /\ outcome' = "ok"
    /\ ret' = NoValue
    /\ UNCHANGED <<time, sample_period, start_time, sample_rate, nr_dimensions, length_kd>>

\* ----------------------------------------------------------------- labels

\* get_space_labels() of the generic variant: 'signal-i' for every i below
\* the cached length_3d when there are more than two axes.
get_space_labels ==
    /\ op = Idle
    /\ op' = [name |-> "get_space_labels"]
    /\ store_calls' = <<>>
    /\ outcome' = "ok"
    /\ ret' = IF nr_dimensions > 2
              THEN [i \in 1..length_kd[3] |-> <<"signal-", FormatInt(i - 1)>>]
              ELSE <<>>
    /\ UNCHANGED <<data, time, sample_period, start_time, sample_rate,
                   nr_dimensions, length_kd>>

\* The caller takes the result of the call; the next call can be made.
return ==
    /\ op # Idle
    /\ op' = Idle
    /\ outcome' = "ok"
    /\ ret' = NoValue
    /\ store_calls' = <<>>
    /\ UNCHANGED <<data, time, sample_period, start_time, sample_rate,
                   nr_dimensions, length_kd>>

Next ==
    \/ return
    \/ configure
    \/ write_time_slice
    \/ write_data_slice
    \/ get_space_labels

Spec == Init /\ [][Next]_vars

\* ------------------------------------------------------------ time paging

\* An optional integer argument.
IntArg(n) == [kind |-> "int", int |-> n]

\* numpy.arange(start, stop, step) over integers, step > 0.
arange(start, stop, step) ==
    LET count == IF stop > start THEN CeilDiv(stop - start, step) ELSE 0
    IN  AsSeq([k \in 1..count |-> start + (k - 1) * step])

\* max_size as read_time_page uses it: page_size when None was passed.
effective_max_size(page_size, max_size) ==
    IF max_size.kind = "none" THEN page_size ELSE max_size.int

\* (variant: the page offset is left out of the start time)
page_start_time_first(current_page, page_real_size) == start_time

page_start_time(current_page, page_real_size) ==
    start_time + current_page * page_real_size

\* read_time_page(current_page, page_size, max_size=None), times in ticks.
read_time_page_result(current_page, page_size, max_size) ==
    LET ms             == effective_max_size(page_size, max_size)
        page_real_size == page_size * sample_period
        start          == page_start_time(current_page, page_real_size)
        end_time       == start + Min(page_real_size, ms * sample_period)
    IN  arange(start, end_time, sample_period)

read_time_page ==
    /\ op = Idle
    /\ \E current_page \in 0..MaxPage, page_size \in 0..MaxPage,
          max_size \in {None} \cup {IntArg(n) : n \in 0..(MaxPage + 1)} :
         /\ op' = [name |-> "read_time_page", current_page |-> current_page,
                   page_size |-> page_size, max_size |-> max_size]
         /\ ret' = read_time_page_result(current_page, page_size, max_size)
    /\ outcome' = "ok"
    /\ store_calls' = <<>>
    /\ UNCHANGED <<data, time, sample_period, start_time, sample_rate,
                   nr_dimensions, length_kd>>

\* A time series of any sample period and start time, its data in place.
InitPaging ==
    /\ data = Samples(<<MaxT, 1, MaxExt>>)
    /\ sample_period \in 1..MaxTick
    /\ start_time \in 0..MaxTick
    /\ InitFields

NextPaging ==
    \/ return
    \/ read_time_page

SpecPaging == InitPaging /\ [][NextPaging]_vars

\* ------------------------------------------------------------ data paging

\* specific_slices as read_data_page uses it: a text is decoded first.
decoded(arg) == IF arg.kind = "text" THEN ListArg(loads(arg.text)) ELSE arg

\* (variant: the upper bound stops one short of the extent)
time_slice_short(from_idx, to_idx, step, overall_shape) ==
    slice(from_idx, Min(to_idx, overall_shape[1] - 1), step)

\* Axis 0: slice(from_idx, min(to_idx, overall_shape[0]), step).
time_slice(from_idx, to_idx, step, overall_shape) ==
    slice(from_idx, Min(to_idx, overall_shape[1]), step)

\* Axis i > 0: all of axis 2, one index of every other axis.
space_slice(i, specific_slices, overall_shape) ==
    IF i = 2 THEN slice(0, overall_shape[i + 1], 1)
    ELSE IF specific_slices.kind = "none" THEN slice(0, 1, 1)
    ELSE LET s == specific_slices.list[i + 1]
         IN  slice(s, Min(s + 1, overall_shape[i + 1]), 1)

\* The slices read_data_page builds, one per axis of the backing array.
page_slices(from_idx, to_idx, step, specific_slices, overall_shape) ==
    AsSeq([k \in 1..Len(overall_shape) |->
             IF k = 1 THEN time_slice(from_idx, to_idx, step, overall_shape)
             ELSE space_slice(k - 1, specific_slices, overall_shape)])

\* specific_slices[i] is read for every axis but 0 and 2: a list too short
\* for that is an IndexError.
slices_too_short(specific_slices, overall_shape) ==
    /\ specific_slices.kind = "list"
    /\ \E i \in 1..(Len(overall_shape) - 1) :
          i # 2 /\ i + 1 > Len(specific_slices.list)

\* What read_data_page makes of the slice it read: a single time step is
\* squeezed and reshaped to (1, len), anything else is squeezed.  len() of
\* an array without axes is a TypeError, a reshape that does not keep the
\* number of elements a ValueError.
page_result(d) ==
    IF d.shape[1] = 1
    THEN LET sq == squeeze(d)
         IN  IF Rank(sq) = 0 THEN Raised("TypeError")
             ELSE IF Size(sq.shape) # sq.shape[1] THEN Raised("ValueError")
                  ELSE Result("ok", reshape(sq, <<1, sq.shape[1]>>))
    ELSE Result("ok", squeeze(d))

\* read_data_page(from_idx, to_idx, step, specific_slices) on the stored
\* array d: its outcome, the page it returns and the store calls it makes.
read_data_page_result(d, from_idx, to_idx, step, specific_slices) ==
    LET ss == decoded(specific_slices)
        st == IF step.kind = "none" THEN 1 ELSE step.int
    IN  IF read_data_shape_fails(d)
        THEN Called(Raised("TVBException"), <<ShapeCall>>)
        ELSE LET overall_shape == read_data_shape(d)
             IN  IF slices_too_short(ss, overall_shape)
                 THEN Called(Raised("IndexError"), <<ShapeCall>>)
                 ELSE LET slices == page_slices(from_idx, to_idx, st, ss, overall_shape)
                      IN  Called(page_result(read_data_slice(d, slices)),
                                 <<ShapeCall, StoreCall("get_data", slices)>>)

\* Requests: from_idx within the bounded time axis, to_idx up to one past
\* it, the default step or 2.
FromIdx == 0..MaxT

ToIdx == 0..(MaxT + 1)

Steps == {None, IntArg(2)}

\* specific_slices for an array of rank r: r entries; those of axes 0 and 2
\* are never read.  The others are -1, the first index, the last index of
\* the longest axis, or one past it.
SliceLists(r) ==
    {l \in [1..r -> {-1, 0, MaxExt - 1, MaxExt}] :
        \A k \in 1..r : k \in {1, 3} => l[k] = 0}

\* As a list, or as the text of a list (here of lists of one value).
SpecificSlices(r) ==
    {None, ListArg(<<>>)}
      \cup {ListArg(l) : l \in SliceLists(r)}
      \cup {TextArg(dumps(l)) :
               l \in {m \in SliceLists(r) : \A k \in 1..r : k > 3 => m[k] = m[2]}}

read_data_page ==
    /\ op = Idle
    /\ \E from_idx \in FromIdx, to_idx \in ToIdx, step \in Steps,
          specific_slices \in SpecificSlices(Len(data.shape)) :
         LET r == read_data_page_result(data, from_idx, to_idx, step, specific_slices)
         IN  /\ op' = [name |-> "read_data_page", from_idx |-> from_idx,
                       to_idx |-> to_idx, step |-> step,
                       specific_slices |-> specific_slices]
             /\ outcome' = r.outcome
             /\ ret' = r.value
             /\ store_calls' = r.calls
    /\ UNCHANGED <<data, time, sample_period, start_time, sample_rate,
                   nr_dimensions, length_kd>>

\* ---------------------------------------------------------- channel paging

\* The column selection of read_channels_page: the decoded channels when
\* the text is given and decodes to a non-empty list, else every column.
channel_slice(channels_list) ==
    IF channels_list.kind = "none" THEN None
    ELSE IF channels_list.text = <<>> THEN None
    ELSE LET l == loads(channels_list.text)
         IN  IF l = <<>> THEN None ELSE ListArg(l)

\* (variant: the first columns are taken, whichever were asked for)
take_first_columns(page, cols) ==
    MkArr(AsSeq([k \in 1..Rank(page) |-> IF k = 2 THEN Len(cols) ELSE page.shape[k]]),
          LAMBDA i0, i1, i2, i3 : At(page, i0, Min(i1, page.shape[2] - 1), i2, i3))

\* data_page[:, channel_slice] for a tuple of column indices.
take_columns(page, cols) ==
    LET n == page.shape[2]
    IN  MkArr(AsSeq([k \in 1..Rank(page) |-> IF k = 2 THEN Len(cols) ELSE page.shape[k]]),
              LAMBDA i0, i1, i2, i3 :
                At(page, i0, WrapIndex(cols[i1 + 1], n), i2, i3))

\* What read_channels_page makes of the page: a 1-D page becomes a column,
\* any other page is indexed by the channels along axis 1.
channels_result(page, sel) ==
    IF Rank(page) = 1
    THEN Result("ok", reshape(page, <<page.shape[1], 1>>))
    ELSE IF sel.kind = "none" THEN Result("ok", page)
    ELSE IF \E k \in 1..Len(sel.list) : ~IndexOk(sel.list[k], page.shape[2])
         THEN Raised("IndexError")
         ELSE Result("ok", take_columns(page, sel.list))

read_channels_page_result(d, from_idx, to_idx, step, specific_slices, channels_list) ==
    LET sel == channel_slice(channels_list)
        r   == read_data_page_result(d, from_idx, to_idx, step, specific_slices)
    IN  IF r.outcome # "ok" THEN r ELSE Called(channels_result(r.value, sel), r.calls)

\* Channel lists: up to two channels, up to one past the last (a single
\* one also from the end, -1), as texts; or none.
ChannelLists ==
    {<<>>} \cup [1..1 -> -1..MaxExt] \cup [1..2 -> 0..MaxExt]

ChannelArgs == {None, TextArg(<<>>)} \cup {TextArg(dumps(l)) : l \in ChannelLists}

\* specific_slices of the channel requests: none, or the last index of the
\* longest axis; their step is the default.
ChannelSpecificSlices(r) ==
    {None} \cup {ListArg([k \in 1..r |-> v]) : v \in {MaxExt - 1}}

read_channels_page ==
    /\ op = Idle
    /\ \E from_idx \in 0..1, to_idx \in ToIdx, step \in {None},
          specific_slices \in ChannelSpecificSlices(Len(data.shape)),
          channels_list \in ChannelArgs :
         LET r == read_channels_page_result(data, from_idx, to_idx, step,
                                            specific_slices, channels_list)
         IN  /\ op' = [name |-> "read_channels_page", from_idx |-> from_idx,
                       to_idx |-> to_idx, step |-> step,
                       specific_slices |-> specific_slices,
                       channels_list |-> channels_list]
             /\ outcome' = r.outcome
             /\ ret' = r.value
             /\ store_calls' = r.calls
    /\ UNCHANGED <<data, time, sample_period, start_time, sample_rate,
                   nr_dimensions, length_kd>>

NextPage ==
    \/ return
    \/ write_data_slice
    \/ read_data_page
    \/ read_channels_page

SpecPage == Init /\ [][NextPage]_vars

\* ----------------------------------------------------------------- volume

\* (variant: a negative from_idx is let through)
bad_time_window_upper(from_idx, to_idx, overall_shape) ==
    from_idx > to_idx \/ to_idx > overall_shape[1]

\* The time window check of get_rotated_volume_slice and get_volume_view.
bad_time_window(from_idx, to_idx, overall_shape) ==
    from_idx > to_idx \/ to_idx > overall_shape[1] \/ from_idx < 0

\* The coordinate check of get_volume_view and get_voxel_time_series.
bad_coordinates(x, y, z, overall_shape) ==
    x > overall_shape[2] \/ y > overall_shape[3] \/ z > overall_shape[4]

\* The sub-volume both operations read: the time window, all of the space.
volume_slices(from_idx, to_idx, overall_shape) ==
    <<slice(from_idx, to_idx, 1), slice(0, overall_shape[2], 1),
      slice(0, overall_shape[3], 1), slice(0, overall_shape[4], 1)>>

\* numpy.ndarray.tolist() of an array of three axes.
tolist(a) ==
    AsSeq([t \in 1..a.shape[1] |->
      AsSeq([i \in 1..a.shape[2] |->
        AsSeq([j \in 1..a.shape[3] |-> At(a, t - 1, i - 1, j - 1, 0)])])])

\* a[..., k], a[:, k, ...] and a[..., k, :] of an array of four axes, k
\* within the axis.
take_last(a, k) ==
    MkArr(<<a.shape[1], a.shape[2], a.shape[3]>>,
          LAMBDA i0, i1, i2, i3 : At(a, i0, i1, i2, WrapIndex(k, a.shape[4])))

take_axis1(a, k) ==
    MkArr(<<a.shape[1], a.shape[3], a.shape[4]>>,
          LAMBDA i0, i1, i2, i3 : At(a, i0, WrapIndex(k, a.shape[2]), i1, i2))

take_axis2(a, k) ==
    MkArr(<<a.shape[1], a.shape[2], a.shape[4]>>,
          LAMBDA i0, i1, i2, i3 : At(a, i0, i1, WrapIndex(k, a.shape[3]), i2))

\* get_rotated_volume_slice(from_idx, to_idx)
get_rotated_volume_slice_result(d, from_idx, to_idx) ==
    IF read_data_shape_fails(d)
    THEN Called(Raised("TVBException"), <<ShapeCall>>)
    ELSE LET overall_shape == read_data_shape(d)
         IN  IF bad_time_window(from_idx, to_idx, overall_shape)
             THEN Called(Raised("ValidationException"), <<ShapeCall>>)
             ELSE LET slices == volume_slices(from_idx, to_idx, overall_shape)
                  IN  Called(Result("ok", ReverseLast(read_data_slice(d, slices))),
                             <<ShapeCall, StoreCall("get_data", slices)>>)

\* (variant: the YZ and XZ sections change places)
volume_sections_swapped(v, x_plane, y_plane, z_plane) ==
    <<tolist(take_last(v, z_plane)), tolist(take_axis2(v, y_plane)),
      tolist(take_axis1(v, x_plane))>>

\* [slicex, slicey, slicez] of the depth-reversed sub-volume v.
volume_sections(v, x_plane, y_plane, z_plane) ==
    <<tolist(take_last(v, z_plane)), tolist(take_axis1(v, x_plane)),
      tolist(take_axis2(v, y_plane))>>

\* get_volume_view(from_idx, to_idx, x_plane, y_plane, z_plane)
get_volume_view_result(d, from_idx, to_idx, x_plane, y_plane, z_plane) ==
    IF read_data_shape_fails(d)
    THEN Called(Raised("TVBException"), <<ShapeCall>>)
    ELSE LET overall_shape == read_data_shape(d)
         IN  IF bad_time_window(from_idx, to_idx, overall_shape)
             THEN Called(Raised("ValidationException"), <<ShapeCall>>)
             ELSE IF bad_coordinates(x_plane, y_plane, z_plane, overall_shape)
             THEN Called(Raised("ValidationException"), <<ShapeCall>>)
             ELSE LET slices == volume_slices(from_idx, to_idx, overall_shape)
                      calls  == <<ShapeCall, StoreCall("get_data", slices)>>
                      v      == ReverseLast(read_data_slice(d, slices))
                  IN  IF /\ IndexOk(z_plane, v.shape[4])
                         /\ IndexOk(x_plane, v.shape[2])
                         /\ IndexOk(y_plane, v.shape[3])
                      THEN Called(Result("ok",
                                    volume_sections(v, x_plane, y_plane, z_plane)),
                                  calls)
                      ELSE Called(Raised("IndexError"), calls)

RECURSIVE SeqMax(_)
SeqMax(q) == IF Len(q) = 1 THEN q[1] ELSE Max(q[1], SeqMax(Tail(q)))

RECURSIVE SeqMin(_)
SeqMin(q) == IF Len(q) = 1 THEN q[1] ELSE Min(q[1], SeqMin(Tail(q)))

\* get_voxel_time_series(x, y, z): the time course and its max and min
\* (mean, median, variance and deviation are reals and left out).  max() of
\* an empty time course is a ValueError.
get_voxel_time_series_result(d, x, y, z) ==
    IF read_data_shape_fails(d)
    THEN Called(Raised("TVBException"), <<ShapeCall>>)
    ELSE LET overall_shape == read_data_shape(d)
         IN  IF bad_coordinates(x, y, z, overall_shape)
             THEN Called(Raised("ValidationException"), <<ShapeCall>>)
             ELSE LET slices == <<slice(0, overall_shape[1], 1), slice(x, x + 1, 1),
                                  slice(y, y + 1, 1), slice(0, overall_shape[4], 1)>>
                      calls  == <<ShapeCall, StoreCall("get_data", slices)>>
                      v      == ReverseLast(read_data_slice(d, slices))
                  IN  IF ~IndexOk(z, v.shape[4])
                      THEN Called(Raised("IndexError"), calls)
                      ELSE LET flat == take_last(v, z).flat
                           IN  IF flat = <<>>
                               THEN Called(Raised("ValueError"), calls)
                               ELSE Called(Result("ok",
                                      [data |-> flat, max |-> SeqMax(flat),
                                       min |-> SeqMin(flat)]), calls)

get_rotated_volume_slice ==
    /\ op = Idle
    /\ \E from_idx \in -1..(MaxT + 1), to_idx \in -1..(MaxT + 1) :
         LET r == get_rotated_volume_slice_result(data, from_idx, to_idx)
         IN  /\ op' = [name |-> "get_rotated_volume_slice", from_idx |-> from_idx,
                       to_idx |-> to_idx]
             /\ outcome' = r.outcome
             /\ ret' = r.value
             /\ store_calls' = r.calls
    /\ UNCHANGED <<data, time, sample_period, start_time, sample_rate,
                   nr_dimensions, length_kd>>

\* Time windows of the view requests: all steps, the first, all but the
\* first, and windows that start below 0, end before they start or end
\* past the last step.
Windows(T) == {<<0, T>>, <<0, 1>>, <<1, T>>, <<-1, 1>>, <<1, 0>>, <<0, T + 1>>}

get_volume_view ==
    /\ op = Idle
    /\ \E w \in Windows(Axis(data.shape, 0)),
          x_plane \in -1..(Axis(data.shape, 1) + 1),
          y_plane \in -1..(Axis(data.shape, 2) + 1),
          z_plane \in -1..(Axis(data.shape, 3) + 1) :
         LET r == get_volume_view_result(data, w[1], w[2], x_plane, y_plane, z_plane)
         IN  /\ op' = [name |-> "get_volume_view", from_idx |-> w[1], to_idx |-> w[2],
                       x_plane |-> x_plane, y_plane |-> y_plane, z_plane |-> z_plane]
             /\ outcome' = r.outcome
             /\ ret' = r.value
             /\ store_calls' = r.calls
    /\ UNCHANGED <<data, time, sample_period, start_time, sample_rate,
                   nr_dimensions, length_kd>>

get_voxel_time_series ==
    /\ op = Idle
    /\ \E x \in -2..(Axis(data.shape, 1) + 1),
          y \in -2..(Axis(data.shape, 2) + 1),
          z \in -2..(Axis(data.shape, 3) + 1) :
         LET r == get_voxel_time_series_result(data, x, y, z)
         IN  /\ op' = [name |-> "get_voxel_time_series", x |-> x, y |-> y, z |-> z]
             /\ outcome' = r.outcome
             /\ ret' = r.value
             /\ store_calls' = r.calls
    /\ UNCHANGED <<data, time, sample_period, start_time, sample_rate,
                   nr_dimensions, length_kd>>

\* A volume time series: its 'data' has the four axes time, x, y, z.
InitVolume ==
    /\ data \in {NoData} \cup {Samples(s) : s \in {t \in InitShapes : Len(t) = 4}}
    /\ sample_period = 1
    /\ start_time = 0
    /\ InitFields

\* The first chunk of a volume has four axes.
write_volume_slice ==
    /\ write_data_slice
    /\ Len(data'.shape) = 4

NextVolume ==
    \/ return
    \/ write_volume_slice
    \/ get_rotated_volume_slice
    \/ get_volume_view
    \/ get_voxel_time_series

SpecVolume == InitVolume /\ [][NextVolume]_vars

\* ----------------------------------------------------------------- claims

\* configure() has succeeded at least once (only configure sets sample_rate).
Configured == sample_rate # NotSet

FieldsMatch(shape) ==
    /\ nr_dimensions = Len(shape)
    /\ \A k \in 1..Min(nr_dimensions, 4) : length_kd[k] = shape[k]

\* C7 (as stated): once configure() has succeeded, nr_dimensions and the
\* length_kd fields agree with the current shape of 'data' in every state.
C7_FieldsNeverStale == Configured => FieldsMatch(data.shape)

\* C7 (amended): the fields are those of the most recent successful
\* configure(): a successful configure() makes them agree with 'data', every
\* other call leaves them as they are; so nr_dimensions stays the number of
\* axes and length_kd never exceeds the current extent of axis k-1.
C7_FieldsAsOfConfigure ==
    [][/\ (op'.name = "configure" /\ outcome' = "ok") =>
             /\ nr_dimensions' = Len(data'.shape)
             /\ \A k \in 1..Min(nr_dimensions', 4) : length_kd'[k] = data'.shape[k]
       /\ ~(op'.name = "configure" /\ outcome' = "ok") =>
             /\ nr_dimensions' = nr_dimensions
             /\ length_kd' = length_kd
       /\ Configured' =>
             /\ nr_dimensions' = Len(data'.shape)
             /\ \A k \in 1..Min(nr_dimensions', 4) : length_kd'[k] <= data'.shape[k]
      ]_vars

\* A write after configure(): length_1d is behind the time extent.
C7_Witness ==
    /\ Configured
    /\ op.name = "write_data_slice"
    /\ nr_dimensions = Len(data.shape)
    /\ length_kd[1] < data.shape[1]

Grown(i) == Axis(data'.shape, i) >= Axis(data.shape, i)

Same(i) == Axis(data'.shape, i) = Axis(data.shape, i)

\* C9 (as stated): whatever write is made, axes 1..3 of 'data' keep their
\* extents and axis 0 does not shrink.
C9_OnlyTimeAxisGrows ==
    [][data # NoData => Grown(0) /\ Same(1) /\ Same(2) /\ Same(3)]_vars

\* C9 (amended): write_time_slice leaves 'data' alone; write_data_slice
\* grows the axis named by its grow_dimension argument, by the extent of the
\* chunk along it, and no other axis, so with the default grow_dimension = 0
\* only the time axis grows; no extent of 'data' ever decreases and its
\* number of axes stays.
C9_OnlyGrowDimensionGrows ==
    [][data # NoData =>
         /\ Len(data'.shape) = Len(data.shape)
         /\ \A i \in 0..3 : Grown(i)
         /\ op'.name = "write_time_slice" => data' = data
         /\ op'.name = "write_data_slice" =>
               \A i \in 0..3 :
                  IF i = op'.grow_dimension
                  THEN Axis(data'.shape, i) =
                         Axis(data.shape, i) + Axis(op'.partial_result.shape, i)
                  ELSE Same(i)
      ]_vars

\* A default write_data_slice has appended a row to a three-axis array.
C9_Witness ==
    /\ op.name = "write_data_slice"
    /\ op.grow_dimension = 0
    /\ Len(data.shape) = 3
    /\ data.shape[1] = MaxT
    /\ data.shape[3] = MaxExt

\* The page the claim describes: count elements from first, sample_period
\* apart, where span takes max_size_used for the page's maximal size.
TimePageIs(page, max_size_used) ==
    LET span  == Min(op.page_size * sample_period, max_size_used * sample_period)
        count == IF span <= 0 THEN 0 ELSE CeilDiv(span, sample_period)
        first == start_time + op.current_page * op.page_size * sample_period
    IN  /\ Len(page) = count
        /\ \A k \in 1..count : page[k] = first + (k - 1) * sample_period
        /\ \A k \in 1..(count - 1) : page[k + 1] - page[k] = sample_period
                                     /\ page[k] < page[k + 1]

\* C3 (as stated): the page has ceil(span / sample_period) times, sample_period
\* apart from start_time + current_page * page_size * sample_period on, with
\* span = min(page_size, max_size or page_size) * sample_period, a missing or
\* zero max_size standing for page_size.
C3_TimePageZeroMaxIsPageSize ==
    op.name = "read_time_page" =>
        TimePageIs(ret, IF op.max_size.kind = "none" \/ op.max_size.int = 0
                        THEN op.page_size ELSE op.max_size.int)

\* C3 (amended): the same, but only a missing (None) max_size stands for
\* page_size; a max_size of 0 is used as given and the page is empty.
C3_TimePage ==
    op.name = "read_time_page" =>
        /\ TimePageIs(ret, IF op.max_size.kind = "none"
                           THEN op.page_size ELSE op.max_size.int)
        /\ (op.max_size.kind = "int" /\ op.max_size.int = 0) => ret = <<>>

\* A later page, cut short by max_size, of a series with sample period > 1.
C3_Witness ==
    /\ op.name = "read_time_page"
    /\ op.current_page = 2
    /\ op.page_size = 3
    /\ op.max_size = IntArg(2)
    /\ sample_period = 2
    /\ start_time = 1
    /\ ret = <<13, 15>>

\* The time steps a request asks for: from_idx, from_idx + step, ... below
\* min(to_idx, the time extent of 'data' now).
RequestedSteps ==
    LET st   == IF op.step.kind = "none" THEN 1 ELSE op.step.int
        stop == Min(op.to_idx, data.shape[1])
        n    == IF stop > op.from_idx THEN CeilDiv(stop - op.from_idx, st) ELSE 0
    IN  [k \in 1..n |-> op.from_idx + (k - 1) * st]

\* specific_slices of the request, if given, name an index of every axis.
SlicesInRange ==
    LET ss == decoded(op.specific_slices)
    IN  ss.kind = "list" =>
          /\ Len(ss.list) = Len(data.shape)
          /\ \A k \in 2..Len(data.shape) : 0 <= ss.list[k] /\ ss.list[k] < data.shape[k]

\* C1: a read_data_page that selects at least one time step of an array of
\* two or more axes returns a page of exactly two axes (here for requests
\* whose specific_slices, if given, are within the axes).
C1_PageIsRank2 ==
    (/\ op.name = "read_data_page"
     /\ Len(data.shape) >= 2
     /\ SlicesInRange
     /\ RequestedSteps # <<>>)
    => (outcome = "ok" /\ Rank(ret) = 2)

\* The indices of axis k (1-based) the last get_data call selected.
SelectedIndices(k) ==
    SliceIndices(store_calls[2].slices[k], data.shape[k])

ReadsData == Len(store_calls) = 2 /\ store_calls[2].method = "get_data"

\* C2: for 0 <= from_idx <= shape[0], to_idx >= from_idx and step >= 1 the
\* page read goes through to the store whatever to_idx is, the time indices
\* it reads are from_idx, from_idx + step, ... below min(to_idx, shape[0])
\* for the shape 'data' has at the call, and a to_idx past the end gives
\* what to_idx = shape[0] gives.
C2_TimeUpperBoundClamped ==
    (/\ op.name = "read_data_page"
     /\ data # NoData
     /\ op.from_idx <= data.shape[1]
     /\ op.to_idx >= op.from_idx
     /\ ~slices_too_short(decoded(op.specific_slices), data.shape))
    => /\ ReadsData
       /\ SelectedIndices(1) = RequestedSteps
       /\ outcome # "IndexError"
       /\ op.to_idx > data.shape[1] =>
            LET r == read_data_page_result(data, op.from_idx, data.shape[1],
                                           op.step, op.specific_slices)
            IN  outcome = r.outcome /\ ret = r.value

\* A page asked for past the end of an array whose last row was appended
\* after construction.
C2_Witness ==
    /\ op.name = "read_data_page"
    /\ data.shape = <<MaxT, 1, MaxExt>>
    /\ op.from_idx = 0
    /\ op.to_idx = MaxT + 1
    /\ op.step = None
    /\ outcome = "ok"
    /\ ret.shape = <<MaxT, MaxExt>>
    /\ SelectedIndices(1) = [k \in 1..MaxT |-> k - 1]

\* C8: in the slices read_data_page builds, axis 2 is the full range and
\* every other axis but 0 selects exactly one index of the axis: index 0
\* without specific_slices, else specific_slices[axis] brought into the axis.
C8_OneIndexPerAxis ==
    (/\ op.name = "read_data_page"
     /\ data # NoData
     /\ ~slices_too_short(decoded(op.specific_slices), data.shape))
    => /\ ReadsData
       /\ \A k \in 2..Len(data.shape) :
            IF k = 3
            THEN SelectedIndices(k) = [i \in 1..data.shape[k] |-> i - 1]
            ELSE LET ss == decoded(op.specific_slices)
                 IN  /\ Len(SelectedIndices(k)) = 1
                     /\ SelectedIndices(k)[1] \in 0..(data.shape[k] - 1)
                     /\ ss.kind = "none" => SelectedIndices(k)[1] = 0
                     /\ (ss.kind = "list" /\ ss.list[k] \in 0..(data.shape[k] - 1))
                          => SelectedIndices(k)[1] = ss.list[k]

\* The page read_data_page gives for the arguments of the last call.
PageOfRequest ==
    read_data_page_result(data, op.from_idx, op.to_idx, op.step, op.specific_slices)

\* The result is the page's columns cols, in that order.
IsColumns(page, cols) ==
    /\ outcome = "ok"
    /\ ret.shape = <<page.shape[1], Len(cols)>>
    /\ \A t \in 0..(page.shape[1] - 1) : \A j \in 1..Len(cols) :
          At(ret, t, j - 1, 0, 0) = At(page, t, cols[j], 0, 0)

IsColumnVector(page) ==
    /\ outcome = "ok"
    /\ ret.shape = <<page.shape[1], 1>>
    /\ ret.flat = page.flat

\* channels_list is the text of the list l.
DecodesTo(l) == op.channels_list.kind = "text" /\ op.channels_list.text = dumps(l)

Absent == op.channels_list.kind = "none" \/ op.channels_list.text = <<>>

ValidChannels(page) ==
    {l \in ChannelLists : \A j \in 1..Len(l) : l[j] \in 0..(page.shape[2] - 1)}

\* C10 (as stated): a 2-D page of T rows and a channels_list that decodes to
\* k valid channels give the (T, k) array of those columns in that order; no
\* channels_list gives every column; a 1-D page gives the (T, 1) column
\* vector of its values.
C10_ChannelsSelectColumns ==
    (op.name = "read_channels_page" /\ PageOfRequest.outcome = "ok") =>
        LET page == PageOfRequest.value
        IN  /\ Rank(page) = 1 => IsColumnVector(page)
            /\ (Rank(page) = 2 /\ Absent) => (outcome = "ok" /\ ret = page)
            /\ Rank(page) = 2 =>
                 \A l \in ValidChannels(page) : DecodesTo(l) => IsColumns(page, l)

\* C10 (amended): the same for k >= 1 channels; a channels_list that is
\* absent, empty or decodes to the empty list gives every column.
C10_ChannelsSelectColumnsOrAll ==
    (op.name = "read_channels_page" /\ PageOfRequest.outcome = "ok") =>
        LET page == PageOfRequest.value
        IN  /\ Rank(page) = 1 => IsColumnVector(page)
            /\ (Rank(page) = 2 /\ (Absent \/ DecodesTo(<<>>)))
                 => (outcome = "ok" /\ ret = page)
            /\ Rank(page) = 2 =>
                 \A l \in ValidChannels(page) :
                    (l # <<>> /\ DecodesTo(l)) => IsColumns(page, l)

\* Two channels in reverse order taken from a page of two rows.
C10_Witness ==
    /\ op.name = "read_channels_page"
    /\ data.shape = <<MaxT, 1, MaxExt>>
    /\ PageOfRequest.outcome = "ok"
    /\ PageOfRequest.value.shape = <<2, MaxExt>>
    /\ DecodesTo(<<1, 0>>)
    /\ outcome = "ok"
    /\ ret.shape = <<2, 2>>
    /\ ret.flat = <<At(data, op.from_idx, 0, 1, 0), At(data, op.from_idx, 0, 0, 0),
                    At(data, op.from_idx + 1, 0, 1, 0), At(data, op.from_idx + 1, 0, 0, 0)>>

WindowOk == 0 <= op.from_idx /\ op.from_idx <= op.to_idx /\ op.to_idx <= data.shape[1]

Rejected == outcome = "ValidationException" /\ store_calls = <<ShapeCall>>

\* C4: get_rotated_volume_slice and get_volume_view end in ValidationError,
\* with nothing read from the store but the shape, whenever the time window
\* is not 0 <= from_idx <= to_idx <= shape[0]; so does get_volume_view
\* whenever x_plane > shape[1], y_plane > shape[2] or z_plane > shape[3].
C4_OutOfBoundsRejected ==
    /\ (/\ op.name \in {"get_rotated_volume_slice", "get_volume_view"}
        /\ data # NoData
        /\ ~WindowOk) => Rejected
    /\ (/\ op.name = "get_volume_view"
        /\ data # NoData
        /\ \/ op.x_plane > data.shape[2]
           \/ op.y_plane > data.shape[3]
           \/ op.z_plane > data.shape[4]) => Rejected

\* A view with a time window within the array and a plane past its axis.
C4_Witness ==
    /\ op.name = "get_volume_view"
    /\ data.shape = <<MaxT, MaxExt, 1, MaxExt>>
    /\ WindowOk
    /\ op.from_idx < op.to_idx
    /\ op.x_plane = 0
    /\ op.y_plane = 2
    /\ op.z_plane = 0
    /\ Rejected

\* C5: for 0 <= from_idx <= to_idx <= T and planes within their axes,
\* get_volume_view returns [XY, YZ, XZ], each with to_idx - from_idx time
\* entries, with XY[t][i][j] = raw[from_idx+t][i][j][Z-1-z_plane],
\* YZ[t][j][k] = raw[from_idx+t][x_plane][j][Z-1-k] and
\* XZ[t][i][k] = raw[from_idx+t][i][y_plane][Z-1-k].
C5_ViewSections ==
    (/\ op.name = "get_volume_view"
     /\ data # NoData
     /\ WindowOk
     /\ op.x_plane \in 0..(data.shape[2] - 1)
     /\ op.y_plane \in 0..(data.shape[3] - 1)
     /\ op.z_plane \in 0..(data.shape[4] - 1))
    => LET n == op.to_idx - op.from_idx
           X == data.shape[2]
           Y == data.shape[3]
           Z == data.shape[4]
       IN  /\ outcome = "ok"
           /\ Len(ret) = 3
           /\ \A s \in 1..3 : Len(ret[s]) = n
           /\ \A t \in 1..n :
                /\ Len(ret[1][t]) = X /\ \A i \in 1..X : Len(ret[1][t][i]) = Y
                /\ Len(ret[2][t]) = Y /\ \A j \in 1..Y : Len(ret[2][t][j]) = Z
                /\ Len(ret[3][t]) = X /\ \A i \in 1..X : Len(ret[3][t][i]) = Z
                /\ \A i \in 1..X : \A j \in 1..Y :
                     ret[1][t][i][j] =
                       At(data, op.from_idx + t - 1, i - 1, j - 1, Z - 1 - op.z_plane)
                /\ \A j \in 1..Y : \A k \in 1..Z :
                     ret[2][t][j][k] =
                       At(data, op.from_idx + t - 1, op.x_plane, j - 1, Z - k)
                /\ \A i \in 1..X : \A k \in 1..Z :
                     ret[3][t][i][k] =
                       At(data, op.from_idx + t - 1, i - 1, op.y_plane, Z - k)

\* The sections at (1, 0, 1) of all the steps of a full-size volume.
C5_Witness ==
    /\ op.name = "get_volume_view"
    /\ data.shape = <<MaxT, MaxExt, MaxExt, MaxExt>>
    /\ op.from_idx = 0
    /\ op.to_idx = MaxT
    /\ op.x_plane = 1
    /\ op.y_plane = 0
    /\ op.z_plane = 1
    /\ outcome = "ok"
    /\ Len(ret[1]) = MaxT
    /\ ret[1][1][2][1] = Sample(0, 1, 0, MaxExt - 2)
    /\ ret[2][1][1][1] = Sample(0, 1, 0, MaxExt - 1)
    /\ ret[3][MaxT][1][2] = Sample(MaxT - 1, 0, 0, MaxExt - 2)

\* C6: get_voxel_time_series(x, y, z) on a 4-D array either ends in
\* ValidationError or returns the T values raw[t][x][y][Z-1-z]; coordinates
\* outside 0..X-1, 0..Y-1, 0..Z-1 and an empty time course (T = 0) end in
\* ValidationError.
C6_VoxelOrValidationError ==
    (op.name = "get_voxel_time_series" /\ data # NoData) =>
        LET T  == data.shape[1]
            in == /\ op.x \in 0..(data.shape[2] - 1)
                  /\ op.y \in 0..(data.shape[3] - 1)
                  /\ op.z \in 0..(data.shape[4] - 1)
        IN  \/ outcome = "ValidationException"
            \/ /\ outcome = "ok"
               /\ in
               /\ T > 0
               /\ Len(ret.data) = T
               /\ \A t \in 1..T :
                    ret.data[t] = At(data, t - 1, op.x, op.y, data.shape[4] - 1 - op.z)

====
